---- MODULE Spec2Model ----
(***************************************************************************)
(* Model of the concept2drive workout log codec: the access-table scan and *)
(* the storage-record decode of Drive::workouts (src/src/drive.rs), the    *)
(* binary readers of src/src/native.rs and the workout-type tags of        *)
(* src/src/workouts.rs.                                                    *)
(*                                                                         *)
(* Streams are sequences of bytes with a 0-based cursor.  A u32 is kept as *)
(* its two 16-bit halves [hi, lo], because the model checker's integers    *)
(* are narrower than 2^32; u8 and u16 values are plain integers.           *)
(***************************************************************************)
EXTENDS Integers, Sequences, FiniteSets, TLC

Byte == 0 .. 255

(* ------------------------------------------------------------------ *)
(* u32 arithmetic on 16-bit halves                                      *)
(* ------------------------------------------------------------------ *)

U32(h, l) == [hi |-> h, lo |-> l]

\* `x as u32` for a u16 (or smaller) value x
U32Of(x) == U32(0, x)

U32IsZero(a) == a.hi = 0 /\ a.lo = 0

\* a + b for b in {0, 1}, wrapping modulo 2^32 as a release build does
U32AddSmall(a, b) ==
    LET l == a.lo + b
    IN  U32((a.hi + (l \div 65536)) % 65536, l % 65536)

\* TRUE iff a + b (b in {0, 1}) does not fit 32 bits
U32AddOverflows(a, b) == a.hi = 65535 /\ a.lo + b > 65535

\* a / d and a % d for a u32 a and a divisor 1 <= d <= 65535 (schoolbook
\* division: the high half first, then the two bytes of the low half)
U32DivMod(a, d) ==
    LET q1 == a.hi \div d
        r1 == a.hi % d
        t2 == r1 * 256 + (a.lo \div 256)
        q2 == t2 \div d
        r2 == t2 % d
        t3 == r2 * 256 + (a.lo % 256)
        q3 == t3 \div d
        r3 == t3 % d
    IN  [quot |-> U32(q1, q2 * 256 + q3), rem |-> r3]

\* bits lo_bit .. lo_bit+width-1 of a u32, as (a & (mask << lo_bit)) >> lo_bit;
\* every field used lies inside one half
RECURSIVE Pow2(_)
Pow2(n) == IF n = 0 THEN 1 ELSE 2 * Pow2(n - 1)

BitField(a, lo_bit, width) ==
    IF lo_bit >= 16
    THEN (a.hi \div Pow2(lo_bit - 16)) % Pow2(width)
    ELSE (a.lo \div Pow2(lo_bit)) % Pow2(width)

(* ------------------------------------------------------------------ *)
(* byteorder reads on a byte sequence s at 0-based position p           *)
(* ------------------------------------------------------------------ *)

\* a read that leaves the buffer as it was created
ReadRawZeroed(s, p, n) == [i \in 1 .. n |-> 0]

ReadU8(s, p) == s[p + 1]
ReadU16LE(s, p) == s[p + 1] + 256 * s[p + 2]
ReadU16BE(s, p) == 256 * s[p + 1] + s[p + 2]
ReadU32BE(s, p) == U32(ReadU16BE(s, p), ReadU16BE(s, p + 2))
ReadRaw(s, p, n) == SubSeq(s, p + 1, p + n)

\* one field of a record layout, decoded as the reader of that field does
ReadAs(enc, s, p, n) ==
    CASE enc = "u8"    -> ReadU8(s, p)
      [] enc = "u16le" -> ReadU16LE(s, p)
      [] enc = "u16be" -> ReadU16BE(s, p)
      [] enc = "u32be" -> ReadU32BE(s, p)
      [] OTHER         -> ReadRaw(s, p, n)

RECURSIVE WidthSum(_, _)
WidthSum(fields, n) == IF n = 0 THEN 0 ELSE fields[n].n + WidthSum(fields, n - 1)

\* a record layout: the fields in the order they are read, each with the
\* number of bytes the reads before it consume
Layout(fields) ==
    [i \in 1 .. Len(fields) |->
        [name |-> fields[i].name, n |-> fields[i].n, enc |-> fields[i].enc,
         off |-> WidthSum(fields, i - 1)]]

\* bytes consumed when every read of the layout succeeds
LayoutSize(layout) == layout[Len(layout)].off + layout[Len(layout)].n

FieldIdx(layout, name) == CHOOSE i \in 1 .. Len(layout) : layout[i].name = name

\* every read_* / read_exact of the layout, done in order from p, succeeds
ReadsOk(layout, s, p) ==
    \A i \in 1 .. Len(layout) : p + layout[i].off + layout[i].n <= Len(s)

ReadField(layout, s, p, name) ==
    LET i == FieldIdx(layout, name)
    IN  ReadAs(layout[i].enc, s, p + layout[i].off, layout[i].n)

(* ------------------------------------------------------------------ *)
(* error.rs                                                             *)
(* ------------------------------------------------------------------ *)

\* ParserError::default(): child is None
ParserErrorDefault == [type |-> "ParserError", child |-> "None"]

\* From<std::io::Error> for ParserError; read_exact on a short stream fails
\* with UnexpectedEof
ParserErrorFromIo == [type |-> "ParserError", child |-> "UnexpectedEof"]

(* ------------------------------------------------------------------ *)
(* workouts.rs: workout-type tags                                       *)
(* ------------------------------------------------------------------ *)

\* TryFrom<u8> for WorkoutType
WorkoutTypeTryFrom(value) ==
    CASE value = 1  -> [ok |-> TRUE, val |-> "FreeRow"]
      [] value = 3  -> [ok |-> TRUE, val |-> "SingleDistance"]
      [] value = 5  -> [ok |-> TRUE, val |-> "SingleTime"]
      [] value = 6  -> [ok |-> TRUE, val |-> "TimeInterval"]
      [] value = 7  -> [ok |-> TRUE, val |-> "DistanceInterval"]
      [] value = 8  -> [ok |-> TRUE, val |-> "VariableInterval"]
      [] value = 10 -> [ok |-> TRUE, val |-> "SingleCalorie"]
      [] OTHER      -> [ok |-> FALSE, val |-> "None"]

(* ------------------------------------------------------------------ *)
(* native.rs: decode_timestamp                                          *)
(* ------------------------------------------------------------------ *)

\* a decoder that keeps the whole low byte as the minute
TimestampFieldsMinuteByte(timestamp) ==
    [year   |-> 2000 + BitField(timestamp, 25, 7),
     day    |-> BitField(timestamp, 20, 5),
     month  |-> BitField(timestamp, 16, 4),
     hour   |-> BitField(timestamp, 8, 8),
     minute |-> BitField(timestamp, 0, 8)]

\* the five fields decode_timestamp masks and shifts out of the u32
TimestampFields(timestamp) ==
    [year   |-> 2000 + BitField(timestamp, 25, 7),
     day    |-> BitField(timestamp, 20, 5),
     month  |-> BitField(timestamp, 16, 4),
     hour   |-> BitField(timestamp, 8, 8),
     minute |-> BitField(timestamp, 0, 7)]

IsLeapYear(y) == (y % 4 = 0 /\ y % 100 # 0) \/ y % 400 = 0

DaysInMonth(y, m) ==
    IF m = 2 THEN (IF IsLeapYear(y) THEN 29 ELSE 28)
    ELSE IF m \in {4, 6, 9, 11} THEN 30 ELSE 31

\* chrono::NaiveDate::from_ymd accepts exactly the dates of the calendar
ValidYmd(y, m, d) == m \in 1 .. 12 /\ d >= 1 /\ d <= DaysInMonth(y, m)

\* chrono::NaiveTime::from_hms_milli(h, m, 0, 0) accepts exactly these
ValidHm(h, m) == h <= 23 /\ m <= 59

\* decode_timestamp: from_ymd and from_hms_milli panic on a value they do
\* not accept; the function has no error return
decode_timestamp(timestamp) ==
    LET f == TimestampFields(timestamp)
    IN  IF ~ValidYmd(f.year, f.month, f.day)
        THEN [res |-> "panic", msg |-> "invalid or out-of-range date"]
        ELSE IF ~ValidHm(f.hour, f.minute)
        THEN [res |-> "panic", msg |-> "invalid time"]
        ELSE [res |-> "ok",
              datetime |-> [year |-> f.year, month |-> f.month, day |-> f.day,
                            hour |-> f.hour, minute |-> f.minute, second |-> 0]]

(* ------------------------------------------------------------------ *)
(* native.rs: LogDataAccessTableEntry                                   *)
(* ------------------------------------------------------------------ *)

\* a reader whose last reserved field is 8 bytes wide
AccessTableLayoutWide ==
    Layout(<< [name |-> "magic",                n |-> 1, enc |-> "u8"],
       [name |-> "workout_type",         n |-> 1, enc |-> "u8"],
       [name |-> "interval_rest_time",   n |-> 2, enc |-> "u16le"],
       [name |-> "workout_name",         n |-> 2, enc |-> "raw"],
       [name |-> "unknown_1",            n |-> 2, enc |-> "raw"],
       [name |-> "timestamp",            n |-> 2, enc |-> "u16be"],
       [name |-> "unknown_2",            n |-> 2, enc |-> "raw"],
       [name |-> "num_splits",           n |-> 2, enc |-> "u16le"],
       [name |-> "duration_or_distance", n |-> 2, enc |-> "u16le"],
       [name |-> "record_offset",        n |-> 2, enc |-> "u16le"],
       [name |-> "unknown_3",            n |-> 6, enc |-> "raw"],
       [name |-> "record_size",          n |-> 2, enc |-> "u16le"],
       [name |-> "index",                n |-> 2, enc |-> "u16le"],
       [name |-> "unknown_4",            n |-> 8, enc |-> "raw"] >>)

\* the reads of LogDataAccessTableEntry::read, in order
AccessTableLayout ==
    Layout(<< [name |-> "magic",                n |-> 1, enc |-> "u8"],
       [name |-> "workout_type",         n |-> 1, enc |-> "u8"],
       [name |-> "interval_rest_time",   n |-> 2, enc |-> "u16le"],
       [name |-> "workout_name",         n |-> 2, enc |-> "raw"],
       [name |-> "unknown_1",            n |-> 2, enc |-> "raw"],
       [name |-> "timestamp",            n |-> 2, enc |-> "u16be"],
       [name |-> "unknown_2",            n |-> 2, enc |-> "raw"],
       [name |-> "num_splits",           n |-> 2, enc |-> "u16le"],
       [name |-> "duration_or_distance", n |-> 2, enc |-> "u16le"],
       [name |-> "record_offset",        n |-> 2, enc |-> "u16le"],
       [name |-> "unknown_3",            n |-> 6, enc |-> "raw"],
       [name |-> "record_size",          n |-> 2, enc |-> "u16le"],
       [name |-> "index",                n |-> 2, enc |-> "u16le"],
       [name |-> "unknown_4",            n |-> 4, enc |-> "raw"] >>)

AccessTableEntrySize == LayoutSize(AccessTableLayout)

\* a reader that accepts every magic byte
AccessTableMagicAny(magic) == TRUE

\* the magic bytes LogDataAccessTableEntry::read accepts
AccessTableMagicOk(magic) == magic = 240 \/ magic = 255 \/ magic = 112

\* LogDataAccessTableEntry::read on stream s at position p
LogDataAccessTableEntryRead(s, p) ==
    LET F(name) == ReadField(AccessTableLayout, s, p, name)
    IN  IF ~ReadsOk(AccessTableLayout, s, p)
        THEN [res |-> "err", err |-> ParserErrorFromIo]
        ELSE IF ~AccessTableMagicOk(F("magic"))
        THEN [res |-> "err", err |-> ParserErrorDefault]
        ELSE [res |-> "ok",
              pos |-> p + AccessTableEntrySize,
              entry |-> [magic                |-> F("magic"),
                         workout_type         |-> F("workout_type"),
                         interval_rest_time   |-> F("interval_rest_time"),
                         workout_name         |-> F("workout_name"),
                         unknown_1            |-> F("unknown_1"),
                         timestamp            |-> F("timestamp"),
                         unknown_2            |-> F("unknown_2"),
                         num_splits           |-> F("num_splits"),
                         duration_or_distance |-> F("duration_or_distance"),
                         record_offset        |-> F("record_offset"),
                         unknown_3            |-> F("unknown_3"),
                         record_size          |-> F("record_size"),
                         index                |-> F("index"),
                         unknown_4            |-> F("unknown_4")]]

(* ------------------------------------------------------------------ *)
(* native.rs: SingleFrame and SingleEntry                               *)
(* ------------------------------------------------------------------ *)

\* the reads of SingleFrame::read, in order
SingleFrameLayout ==
    Layout(<< [name |-> "duration_or_distance", n |-> 2,  enc |-> "u16be"],
       [name |-> "heart_rate",           n |-> 1,  enc |-> "u8"],
       [name |-> "spm",                  n |-> 1,  enc |-> "u8"],
       [name |-> "unknown",              n |-> 28, enc |-> "raw"] >>)

SingleFrameSize == LayoutSize(SingleFrameLayout)

\* SingleFrame::read on stream s at position p
SingleFrameRead(s, p) ==
    LET F(name) == ReadField(SingleFrameLayout, s, p, name)
    IN  IF ~ReadsOk(SingleFrameLayout, s, p)
        THEN [res |-> "err"]
        ELSE [res |-> "ok",
              pos |-> p + SingleFrameSize,
              frame |-> [duration_or_distance |-> F("duration_or_distance"),
                         heart_rate           |-> F("heart_rate"),
                         spm                  |-> F("spm"),
                         unknown              |-> F("unknown")]]

\* the reads of SingleEntry::read that precede the frames, in order
SingleEntryLayout ==
    Layout(<< [name |-> "unknown_1",      n |-> 2,  enc |-> "raw"],
       [name |-> "serial_number",  n |-> 4,  enc |-> "u32be"],
       [name |-> "timestamp",      n |-> 4,  enc |-> "u32be"],
       [name |-> "user_id",        n |-> 2,  enc |-> "u16be"],
       [name |-> "unknown_2",      n |-> 4,  enc |-> "raw"],
       [name |-> "record_id",      n |-> 1,  enc |-> "u8"],
       [name |-> "magic_2",        n |-> 3,  enc |-> "raw"],
       [name |-> "total_duration", n |-> 2,  enc |-> "u16be"],
       [name |-> "total_distance", n |-> 4,  enc |-> "u32be"],
       [name |-> "spm",            n |-> 1,  enc |-> "u8"],
       [name |-> "split_info",     n |-> 1,  enc |-> "u8"],
       [name |-> "split_size",     n |-> 2,  enc |-> "u16be"],
       [name |-> "unknown_3",      n |-> 18, enc |-> "raw"] >>)

SingleEntryBodySize == LayoutSize(SingleEntryLayout)

\* a frame count that drops the remainder frame
DistanceNumFramesFloor(total_distance, split_size) ==
    U32DivMod(total_distance, split_size).quot

\* the FreeRow | SingleDistance arm of num_frames, for split_size >= 1:
\* total_distance / split_size + (1 if total_distance % split_size > 0)
DistanceNumFrames(total_distance, split_size) ==
    LET dm == U32DivMod(total_distance, split_size)
    IN  U32AddSmall(dm.quot, IF dm.rem > 0 THEN 1 ELSE 0)

\* the match that computes num_frames; a u32 division by zero panics, and
\* the two todo!() arms and the unreachable!() arm panic
NumFrames(workout_type, total_distance, split_size) ==
    CASE workout_type \in {"FreeRow", "SingleDistance"} ->
            IF split_size = 0
            THEN [res |-> "panic", msg |-> "attempt to divide by zero"]
            ELSE [res |-> "ok", n |-> DistanceNumFrames(total_distance, split_size)]
      [] workout_type \in {"SingleTime", "SingleCalorie"} ->
            [res |-> "panic", msg |-> "not yet implemented"]
      [] OTHER ->
            [res |-> "panic", msg |-> "internal error: entered unreachable code"]

\* a frame loop that runs once more than num_frames (0 ..= num_frames)
RECURSIVE ReadFramesInclusive(_, _, _, _)
ReadFramesInclusive(s, p, remaining, frames) ==
    LET r == IF p + 32 <= Len(s)
             THEN [res |-> "ok", pos |-> p + 32,
                   frame |-> [duration_or_distance |-> 256 * s[p + 1] + s[p + 2],
                              heart_rate |-> s[p + 3], spm |-> s[p + 4],
                              unknown |-> SubSeq(s, p + 5, p + 32)]]
             ELSE [res |-> "err"]
    IN  IF r.res = "err" THEN [res |-> "err"]
        ELSE IF remaining.hi = 0 /\ remaining.lo = 0
        THEN [res |-> "ok", pos |-> r.pos, frames |-> Append(frames, r.frame)]
        ELSE ReadFramesInclusive(s, r.pos,
                 IF remaining.lo > 0 THEN [hi |-> remaining.hi, lo |-> remaining.lo - 1]
                 ELSE [hi |-> remaining.hi - 1, lo |-> 65535],
                 Append(frames, r.frame))

U32Dec(a) == IF a.lo > 0 THEN U32(a.hi, a.lo - 1) ELSE U32(a.hi - 1, 65535)

\* for _i in 0..num_frames { frames.push(SingleFrame::read(f)?) }
RECURSIVE ReadFrames(_, _, _, _)
ReadFrames(s, p, remaining, frames) ==
    IF U32IsZero(remaining)
    THEN [res |-> "ok", pos |-> p, frames |-> frames]
    ELSE LET r == SingleFrameRead(s, p)
         IN  IF r.res = "err"
             THEN [res |-> "err"]
             ELSE ReadFrames(s, r.pos, U32Dec(remaining), Append(frames, r.frame))

\* SingleEntry::read on stream s at position p (after the 2 header bytes).
\* Vec::with_capacity is taken to succeed.
SingleEntryRead(s, p, magic, workout_type) ==
    LET F(name) == ReadField(SingleEntryLayout, s, p, name)
    IN  IF ~ReadsOk(SingleEntryLayout, s, p)
        THEN [res |-> "err", err |-> "UnexpectedEof"]
        ELSE
        LET nf == NumFrames(workout_type, F("total_distance"), F("split_size"))
        IN  IF nf.res = "panic"
            THEN [res |-> "panic", msg |-> nf.msg]
            ELSE
            LET fr == ReadFrames(s, p + SingleEntryBodySize, nf.n, << >>)
            IN  IF fr.res = "err"
                THEN [res |-> "err", err |-> "UnexpectedEof"]
                ELSE [res |-> "ok",
                      pos |-> fr.pos,
                      entry |-> [magic          |-> magic,
                                 workout_type   |-> workout_type,
                                 unknown_1      |-> F("unknown_1"),
                                 serial_number  |-> F("serial_number"),
                                 timestamp      |-> F("timestamp"),
                                 user_id        |-> F("user_id"),
                                 unknown_2      |-> F("unknown_2"),
                                 record_id      |-> F("record_id"),
                                 magic_2        |-> F("magic_2"),
                                 total_duration |-> F("total_duration"),
                                 total_distance |-> F("total_distance"),
                                 spm            |-> F("spm"),
                                 split_info     |-> F("split_info"),
                                 split_size     |-> F("split_size"),
                                 unknown_3      |-> F("unknown_3"),
                                 frames         |-> fr.frames]]

\* an interval reader that reports an I/O error instead
FixedIntervalEntryReadErr(s, p, magic, workout_type) ==
    [res |-> "err", err |-> "Other"]

\* FixedIntervalEntry::read and VariableIntervalEntry::read: todo!()
FixedIntervalEntryRead(s, p, magic, workout_type) ==
    [res |-> "panic", msg |-> "not yet implemented"]

VariableIntervalEntryRead(s, p, magic, workout_type) ==
    [res |-> "panic", msg |-> "not yet implemented"]

(* ------------------------------------------------------------------ *)
(* native.rs: LogDataStorageEntry                                       *)
(* ------------------------------------------------------------------ *)

\* a dispatch whose Single arm misses 0x0A
StorageVariantNoCalorie(workout_type) ==
    CASE workout_type \in {1, 3, 5}     -> "Single"
      [] workout_type \in {6, 7}        -> "FixedInterval"
      [] workout_type = 8               -> "VariableInterval"
      [] OTHER                          -> "None"

\* the arm of `match workout_type` in LogDataStorageEntry::read
StorageVariant(workout_type) ==
    CASE workout_type \in {1, 3, 5, 10} -> "Single"
      [] workout_type \in {6, 7}        -> "FixedInterval"
      [] workout_type = 8               -> "VariableInterval"
      [] OTHER                          -> "None"

\* LogDataStorageEntry::read on stream s at position p.  res is "ok" (a
\* record and the cursor after it), "err" (a ParserError) or "panic".
LogDataStorageEntryRead(s, p) ==
    IF p + 1 > Len(s) THEN [res |-> "err", err |-> ParserErrorFromIo, variant |-> "None"]
    ELSE IF p + 2 > Len(s) THEN [res |-> "err", err |-> ParserErrorFromIo, variant |-> "None"]
    ELSE
    LET magic        == ReadU8(s, p)
        workout_type == ReadU8(s, p + 1)
        variant      == StorageVariant(workout_type)
        ty           == WorkoutTypeTryFrom(workout_type)
        r == CASE variant = "Single" -> SingleEntryRead(s, p + 2, magic, ty.val)
               [] variant = "FixedInterval" -> FixedIntervalEntryRead(s, p + 2, magic, ty.val)
               [] OTHER -> VariableIntervalEntryRead(s, p + 2, magic, ty.val)
    IN  IF variant = "None"
        THEN [res |-> "err", err |-> ParserErrorDefault, variant |-> "None", pos |-> p + 2]
        ELSE IF ~ty.ok
        THEN [res |-> "err", err |-> ParserErrorDefault, variant |-> variant, pos |-> p + 2]
        ELSE IF r.res = "panic"
        THEN [res |-> "panic", msg |-> r.msg, variant |-> variant]
        ELSE IF r.res = "err"
        THEN [res |-> "err", err |-> ParserErrorFromIo, variant |-> variant]
        ELSE [res |-> "ok", variant |-> variant, pos |-> r.pos, entry |-> r.entry]

(* ------------------------------------------------------------------ *)
(* native.rs: conversions into Workout                                  *)
(* ------------------------------------------------------------------ *)

None == [some |-> FALSE]
Some(v) == [some |-> TRUE, val |-> v]

\* Into<WorkoutFrame> for SingleFrame; durations are in milliseconds
SingleFrameInto(f) ==
    [distance        |-> f.duration_or_distance,
     work_duration   |-> f.duration_or_distance * 100,
     rest_duration   |-> None,
     spm             |-> f.spm,
     work_heart_rate |-> IF f.heart_rate > 0 THEN Some(f.heart_rate) ELSE None,
     rest_heart_rate |-> None]

\* Into<Workout> for SingleEntry: the frame loop, then the Workout literal
\* (which calls decode_timestamp)
SingleEntryInto(e) ==
    LET frames0 == [i \in 1 .. Len(e.frames) |-> SingleFrameInto(e.frames[i])]
        dt      == decode_timestamp(e.timestamp)
    IN  IF Len(frames0) > 0 /\ e.workout_type \in {"SingleTime", "SingleCalorie"}
        THEN [res |-> "panic", msg |-> "not yet implemented"]
        ELSE IF Len(frames0) > 0 /\ e.workout_type \notin {"FreeRow", "SingleDistance"}
        THEN [res |-> "panic", msg |-> "internal error: entered unreachable code"]
        ELSE IF dt.res = "panic"
        THEN [res |-> "panic", msg |-> dt.msg]
        ELSE [res |-> "ok",
              workout |->
                [workout_type        |-> e.workout_type,
                 serial_number       |-> e.serial_number,
                 datetime            |-> dt.datetime,
                 user_id             |-> e.user_id,
                 record_id           |-> e.record_id,
                 total_distance      |-> e.total_distance,
                 total_work_duration |-> e.total_duration * 100,
                 total_rest_duration |-> None,
                 spm                 |-> Some(e.spm),
                 frames |-> [i \in 1 .. Len(frames0) |->
                               [frames0[i] EXCEPT !.distance = e.split_size]]]]

\* Into<Workout> for LogDataStorageEntry; the interval arms are todo!()
LogDataStorageEntryInto(variant, e) ==
    IF variant = "Single" THEN SingleEntryInto(e)
    ELSE [res |-> "panic", msg |-> "not yet implemented"]

(* ------------------------------------------------------------------ *)
(* workouts.rs: metrics of a Workout and of a WorkoutFrame              *)
(* ------------------------------------------------------------------ *)

RECURSIVE SumHeartRates(_)
SumHeartRates(frames) ==
    IF frames = << >> THEN 0
    ELSE Head(frames).work_heart_rate.val + SumHeartRates(Tail(frames))

\* a mean over the frames that have a heart rate, skipping the others
WorkoutHeartRateSkipAbsent(w) ==
    LET present == SelectSeq(w.frames, LAMBDA f : f.work_heart_rate.some)
    IN  IF Len(present) = 0 THEN None
        ELSE Some(SumHeartRates(present) \div Len(present))

\* Workout::heart_rate
WorkoutHeartRate(w) ==
    IF Len(w.frames) = 0 THEN None
    ELSE IF \E i \in 1 .. Len(w.frames) : ~w.frames[i].work_heart_rate.some THEN None
    ELSE Some(SumHeartRates(w.frames) \div Len(w.frames))

\* the divisor taken as it is, without a lower limit
MaxSplitsNone(q) == q

\* std::cmp::max(distance / 500, 1)
MaxSplits(q) == IF U32IsZero(q) THEN U32(0, 1) ELSE q

\* Duration::from_millis(millis as u64 / splits as u64), for a distance held
\* as a u32 and a duration in milliseconds; splits is at most 2^32 / 500
Pace(millis, distance) ==
    LET splits == MaxSplits(U32DivMod(distance, 500).quot)
    IN  IF U32IsZero(splits)
        THEN [res |-> "panic", msg |-> "attempt to divide by zero"]
        ELSE [res |-> "ok", val |-> millis \div (splits.hi * 65536 + splits.lo)]

\* Workout::pace
WorkoutPace(w) == Pace(w.total_work_duration, w.total_distance)

\* WorkoutFrame::pace
WorkoutFramePace(f) == Pace(f.work_duration, U32Of(f.distance))

\* f64 values that are not negative, as exact fractions in lowest terms plus
\* the two non-finite values; the rounding of an f64 operation (relative
\* error 2^-53) is left out
RECURSIVE GCD(_, _)
GCD(a, b) == IF b = 0 THEN a ELSE GCD(b, a % b)

Rat(n, d) == LET g == GCD(n, d) IN [kind |-> "finite", num |-> n \div g, den |-> d \div g]
F64Inf == [kind |-> "inf"]
F64NaN == [kind |-> "nan"]

\* x / y
F64Div(x, y) ==
    IF x.kind = "nan" \/ y.kind = "nan" THEN F64NaN
    ELSE IF x.kind = "inf" THEN (IF y.kind = "inf" THEN F64NaN ELSE F64Inf)
    ELSE IF y.kind = "inf" THEN Rat(0, 1)
    ELSE IF y.num = 0 THEN (IF x.num = 0 THEN F64NaN ELSE F64Inf)
    ELSE Rat(x.num * y.den, x.den * y.num)

\* x * y
F64Mul(x, y) ==
    IF x.kind = "nan" \/ y.kind = "nan" THEN F64NaN
    ELSE IF x.kind = "inf" THEN (IF y.kind = "finite" /\ y.num = 0 THEN F64NaN ELSE F64Inf)
    ELSE IF y.kind = "inf" THEN (IF x.num = 0 THEN F64NaN ELSE F64Inf)
    ELSE Rat(x.num * y.num, x.den * y.den)

\* x + y
F64Add(x, y) ==
    IF x.kind = "nan" \/ y.kind = "nan" THEN F64NaN
    ELSE IF x.kind = "inf" \/ y.kind = "inf" THEN F64Inf
    ELSE Rat(x.num * y.den + y.num * x.den, x.den * y.den)

\* the square in place of the cube
PowiSquare(x) == F64Mul(x, x)

\* pace.powi(3)
Powi3(x) == F64Mul(x, F64Mul(x, x))

\* Duration::as_secs of a duration held in milliseconds
AsSecs(millis) == millis \div 1000

\* `x as f64` for a u32 below 2^31
U32AsF64(a) == Rat(a.hi * 65536 + a.lo, 1)

\* Workout::watts
WorkoutWatts(w) ==
    LET pace == F64Div(Rat(AsSecs(w.total_work_duration), 1), U32AsF64(w.total_distance))
    IN  F64Div(Rat(28, 10), Powi3(pace))

\* Workout::cal_hr
WorkoutCalHr(w) == F64Add(F64Mul(WorkoutWatts(w), Rat(344, 100)), Rat(300, 1))

(* ------------------------------------------------------------------ *)
(* main.rs: list-workouts                                               *)
(* ------------------------------------------------------------------ *)

\* workouts.len() - last on usize: a build with overflow checks panics at the
\* subtraction; one without wraps, and the slice start is then out of range
UsizeSubOutcomes(a, b) ==
    IF b <= a THEN { [res |-> "ok", val |-> a - b] }
    ELSE { [res |-> "panic", msg |-> "attempt to subtract with overflow"],
           [res |-> "panic", msg |-> "range start index out of range for slice"] }

\* cmd_list_workouts after drive.workouts() has returned the given list: the
\* rows printed under the header, as (number, workout) pairs
CmdListWorkouts(ws, flag_last) ==
    LET last == IF flag_last.some THEN flag_last.val ELSE Len(ws)
    IN  { IF start.res = "panic" THEN start
          ELSE [res |-> "ok",
                rows |-> [i \in 1 .. Len(ws) - start.val |->
                            [number |-> (i - 1) + (Len(ws) - last) + 1,
                             workout |-> ws[start.val + i]]]] :
          start \in UsizeSubOutcomes(Len(ws), last) }

(* ------------------------------------------------------------------ *)
(* Input streams: the bytes of LogDataAccessTbl.bin and                 *)
(* LogDataStorage.bin, laid out field by field as the structs declare   *)
(* ------------------------------------------------------------------ *)

EncU16LE(x) == << x % 256, x \div 256 >>
EncU16BE(x) == << x \div 256, x % 256 >>
EncU32BE(a) == EncU16BE(a.hi) \o EncU16BE(a.lo)
Fill(n, b) == [i \in 1 .. n |-> b]

\* an index record with the given magic and record_offset; the other
\* fields carry fixed, pairwise different bytes
EncAccessTableEntry(magic, record_offset) ==
    << magic, 1 >> \o EncU16LE(0) \o << 161, 162 >> \o << 163, 164 >>
      \o EncU16BE(4660) \o << 165, 166 >> \o EncU16LE(2) \o EncU16LE(1000)
      \o EncU16LE(record_offset) \o << 167, 168, 169, 170, 171, 172 >>
      \o EncU16LE(114) \o EncU16LE(3) \o << 173, 174, 175, 176 >>

EncSingleFrame(f) ==
    EncU16BE(f.duration_or_distance) \o << f.heart_rate, f.spm >> \o Fill(28, 187)

RECURSIVE EncFrames(_)
EncFrames(fs) == IF fs = << >> THEN << >> ELSE EncSingleFrame(Head(fs)) \o EncFrames(Tail(fs))

\* a storage record: 2 header bytes, the Single body, then the frames
EncSingleEntry(r) ==
    << r.magic, r.workout_type >> \o << 177, 178 >> \o EncU32BE(r.serial_number)
      \o EncU32BE(r.timestamp) \o EncU16BE(r.user_id) \o << 179, 180, 181, 182 >>
      \o << r.record_id >> \o << 183, 184, 185 >> \o EncU16BE(r.total_duration)
      \o EncU32BE(r.total_distance) \o << r.spm, 0 >> \o EncU16BE(r.split_size)
      \o Fill(18, 186) \o EncFrames(r.frames)

\* year-bits, day, month, hour, minute packed as decode_timestamp unpacks
\* them; bit 7 of the low byte is spare
PackTimestamp(yy, day, month, hour, spare, minute) ==
    U32(yy * 512 + day * 16 + month, hour * 256 + spare * 128 + minute)

\* 2024-06-15 14:30
TsValid == PackTimestamp(24, 15, 6, 14, 0, 30)

Frame(d, hr, spm) == [duration_or_distance |-> d, heart_rate |-> hr, spm |-> spm]

BaseRecord ==
    [magic |-> 149, workout_type |-> 1, serial_number |-> U32(6553, 4242),
     timestamp |-> TsValid, user_id |-> 513, record_id |-> 7,
     total_duration |-> 2405, total_distance |-> U32Of(1000), spm |-> 24,
     split_size |-> 500, frames |-> << Frame(1200, 150, 24), Frame(1205, 155, 25) >>]

\* FreeRow, 1000 m in splits of 500 m: 2 frames
RecFreeRow == EncSingleEntry(BaseRecord)

\* SingleDistance, 1100 m in splits of 500 m: 3 frames, one without heart rate
RecDistance ==
    EncSingleEntry([BaseRecord EXCEPT !.workout_type = 3, !.record_id = 8,
                       !.total_distance = U32Of(1100),
                       !.timestamp = PackTimestamp(24, 29, 2, 23, 1, 59),
                       !.frames = << Frame(1100, 140, 22), Frame(1110, 0, 23),
                                     Frame(240, 160, 26) >>])

\* FreeRow with total_distance 0: no frames
RecEmpty == EncSingleEntry([BaseRecord EXCEPT !.total_distance = U32Of(0), !.frames = << >>])

\* FreeRow with split_size 0
RecSplitZero == EncSingleEntry([BaseRecord EXCEPT !.split_size = 0, !.frames = << >>])

\* FreeRow whose timestamp is 0x00000000
RecTsZero == EncSingleEntry([BaseRecord EXCEPT !.timestamp = U32(0, 0)])

\* SingleTime (0x05) and the interval tags 0x06 and 0x08
RecSingleTime == EncSingleEntry([BaseRecord EXCEPT !.workout_type = 5])
RecTimeInterval == EncSingleEntry([BaseRecord EXCEPT !.workout_type = 6])
RecVariableInterval == EncSingleEntry([BaseRecord EXCEPT !.workout_type = 8])

\* a type tag no arm recognises
RecUnknownType == EncSingleEntry([BaseRecord EXCEPT !.workout_type = 2])

\* FreeRow announcing 2 frames, cut off inside the second
RecTruncated == SubSeq(RecFreeRow, 1, Len(RecFreeRow) - 10)

FirstRecords ==
    { RecFreeRow, RecDistance, RecEmpty, RecSplitZero, RecTsZero, RecSingleTime,
      RecTimeInterval, RecUnknownType }

SecondRecords == { RecDistance, RecVariableInterval, RecTruncated }

\* the number of valid index entries in a generated index stream
MaxEntries == 3

\* how far past the end of the payload stream a dangling record_offset points
PastEnd == 10

\* what follows the valid entries of an index stream: a terminator record,
\* a record with an unrecognised magic, the end of the stream, or a
\* terminator cut short
IndexTail(kind) ==
    CASE kind = "ff"  -> EncAccessTableEntry(255, 0)
      [] kind = "70"  -> EncAccessTableEntry(112, 0)
      [] kind = "bad" -> EncAccessTableEntry(15, 0)
      [] kind = "cut" -> SubSeq(EncAccessTableEntry(255, 0), 1, 20)
      [] OTHER        -> << >>

\* records after the tail, which the scan must never reach
IndexTrailing(kind) ==
    CASE kind = "f0"  -> EncAccessTableEntry(240, 0)
      [] kind = "bad" -> EncAccessTableEntry(15, 0)
      [] OTHER        -> << >>

RECURSIVE EncEntries(_)
EncEntries(offs) ==
    IF offs = << >> THEN << >>
    ELSE EncAccessTableEntry(240, Head(offs)) \o EncEntries(Tail(offs))

TailKinds ==
    { << "ff", "none" >>, << "ff", "f0" >>, << "ff", "bad" >>,
      << "70", "none" >>, << "70", "f0" >>, << "70", "bad" >>,
      << "bad", "none" >>, << "bad", "f0" >>,
      << "eof", "none" >>, << "cut", "none" >> }

(* ------------------------------------------------------------------ *)
(* drive.rs: Drive::workouts as a state machine                         *)
(* ------------------------------------------------------------------ *)

VARIABLES
    index,                 \* bytes of LogDataAccessTbl.bin
    storage,               \* bytes of LogDataStorage.bin
    atPos,                 \* cursor of access_table_file
    stPos,                 \* cursor of storage_file
    access_table_entries,  \* the Vec filled by the scan loop
    k,                     \* 1-based position of the for loop in access_table_entries
    entry,                 \* the storage record of the current iteration
    workouts,              \* the Vec filled by the for loop
    pc,                    \* "scan", "seek", "read", "into", "done"; "unit" outside Drive::workouts
    result,                \* how Drive::workouts ended
    call,                  \* a function called on its own, with its arguments
    ret                    \* what that call returned

vars == << index, storage, atPos, stPos, access_table_entries, k, entry, workouts,
           pc, result, call, ret >>

NoEntry == [variant |-> "None"]
NoResult == [kind |-> "none"]
NoCall == [fn |-> "none"]
NoRet == [res |-> "none"]

Ok(v) == [kind |-> "Ok", value |-> v]
Err(e) == [kind |-> "Err", err |-> e]
Panic(m) == [kind |-> "panic", msg |-> m]

\* the sequences of at most n record offsets drawn from S
RECURSIVE SeqsUpTo(_, _)
SeqsUpTo(S, n) ==
    IF n = 0 THEN { << >> }
    ELSE LET shorter == SeqsUpTo(S, n - 1)
         IN  shorter \cup { Append(q, x) : q \in { r \in shorter : Len(r) = n - 1 }, x \in S }

Init ==
    /\ \E a \in FirstRecords, b \in SecondRecords :
         /\ storage = a \o b
         /\ \E offs \in SeqsUpTo({0, Len(a), Len(a) + Len(b) + PastEnd}, MaxEntries),
               tk \in TailKinds :
              index = EncEntries(offs) \o IndexTail(tk[1]) \o IndexTrailing(tk[2])
    /\ atPos = 0
    /\ stPos = 0
    /\ access_table_entries = << >>
    /\ k = 1
    /\ entry = NoEntry
    /\ workouts = << >>
    /\ pc = "scan"
    /\ result = NoResult
    /\ call = NoCall
    /\ ret = NoRet

\* a scan that ends only at 0xff
IsTerminatorFfOnly(e) == e.magic = 255

\* an entry that ends the scan loop
IsTerminator(e) == e.magic = 255 \/ e.magic = 112

\* a scan loop that takes a failed read as the end of the table
ScanStepBreakOnErr ==
    /\ pc = "scan"
    /\ LET r == LogDataAccessTableEntryRead(index, atPos)
       IN  IF r.res = "err"
           THEN /\ pc' = "seek"
                /\ UNCHANGED << result, atPos, access_table_entries >>
           ELSE /\ atPos' = r.pos
                /\ result' = result
                /\ IF IsTerminator(r.entry)
                   THEN /\ pc' = "seek"
                        /\ access_table_entries' = access_table_entries
                   ELSE /\ pc' = "scan"
                        /\ access_table_entries' = Append(access_table_entries, r.entry)
    /\ UNCHANGED << index, storage, stPos, k, entry, workouts, call, ret >>

\* one iteration of the scan loop: read an index record; a failure returns,
\* a terminator breaks out of the loop, any other entry is pushed
ScanStep ==
    /\ pc = "scan"
    /\ LET r == LogDataAccessTableEntryRead(index, atPos)
       IN  IF r.res = "err"
           THEN /\ pc' = "done"
                /\ result' = Err(r.err)
                /\ UNCHANGED << atPos, access_table_entries >>
           ELSE /\ atPos' = r.pos
                /\ result' = result
                /\ IF IsTerminator(r.entry)
                   THEN /\ pc' = "seek"
                        /\ access_table_entries' = access_table_entries
                   ELSE /\ pc' = "scan"
                        /\ access_table_entries' = Append(access_table_entries, r.entry)
    /\ UNCHANGED << index, storage, stPos, k, entry, workouts, call, ret >>

\* storage_file.seek(SeekFrom::Current(offset)): a seek relative to the cursor
SeekCurrent(s, cur, offset) ==
    IF cur + offset <= Len(s) THEN { [res |-> "ok", pos |-> cur + offset] }
    ELSE { [res |-> "ok", pos |-> Len(s)], [res |-> "err"] }

\* storage_file.seek(SeekFrom::Start(offset)) with the cursor at cur: the
\* file-system collaborator either rejects an offset past the end of the
\* file or moves the cursor to the end of the file; an offset inside the
\* file is taken as it is, wherever the cursor was
SeekStart(s, cur, offset) ==
    IF offset <= Len(s) THEN { [res |-> "ok", pos |-> offset] }
    ELSE { [res |-> "ok", pos |-> Len(s)], [res |-> "err"] }

\* the seek of one iteration of the for loop
SeekStep ==
    /\ pc = "seek"
    /\ k <= Len(access_table_entries)
    /\ \E r \in SeekStart(storage, stPos, access_table_entries[k].record_offset) :
         IF r.res = "err"
         THEN /\ pc' = "done"
              /\ result' = Err(ParserErrorFromIo)
              /\ stPos' = stPos
         ELSE /\ pc' = "read"
              /\ result' = result
              /\ stPos' = r.pos
    /\ UNCHANGED << index, storage, atPos, access_table_entries, k, entry, workouts,
                    call, ret >>

\* a for loop that skips an entry whose record does not decode
ReadStepSkip ==
    /\ pc = "read"
    /\ LET r == LogDataStorageEntryRead(storage, stPos)
       IN  CASE r.res = "err" ->
                  /\ pc' = "seek"
                  /\ result' = result
                  /\ UNCHANGED << stPos, entry >>
             [] r.res = "panic" ->
                  /\ pc' = "done"
                  /\ result' = Panic(r.msg)
                  /\ UNCHANGED << stPos, entry >>
             [] OTHER ->
                  /\ pc' = "into"
                  /\ result' = result
                  /\ stPos' = r.pos
                  /\ entry' = [variant |-> r.variant, entry |-> r.entry]
    /\ k' = IF LogDataStorageEntryRead(storage, stPos).res = "err" THEN k + 1 ELSE k
    /\ UNCHANGED << index, storage, atPos, access_table_entries, workouts, call, ret >>

\* LogDataStorageEntry::read(&mut storage_file)?
ReadStep ==
    /\ pc = "read"
    /\ LET r == LogDataStorageEntryRead(storage, stPos)
       IN  CASE r.res = "err" ->
                  /\ pc' = "done"
                  /\ result' = Err(r.err)
                  /\ UNCHANGED << stPos, entry >>
             [] r.res = "panic" ->
                  /\ pc' = "done"
                  /\ result' = Panic(r.msg)
                  /\ UNCHANGED << stPos, entry >>
             [] OTHER ->
                  /\ pc' = "into"
                  /\ result' = result
                  /\ stPos' = r.pos
                  /\ entry' = [variant |-> r.variant, entry |-> r.entry]
    /\ UNCHANGED << index, storage, atPos, access_table_entries, k, workouts, call, ret >>

\* let workout = entry.into(); workouts.push(workout);
IntoStep ==
    /\ pc = "into"
    /\ LET c == LogDataStorageEntryInto(entry.variant, entry.entry)
       IN  IF c.res = "panic"
           THEN /\ pc' = "done"
                /\ result' = Panic(c.msg)
                /\ UNCHANGED << k, workouts, entry >>
           ELSE /\ pc' = "seek"
                /\ result' = result
                /\ workouts' = Append(workouts, c.workout)
                /\ k' = k + 1
                /\ entry' = NoEntry
    /\ UNCHANGED << index, storage, atPos, stPos, access_table_entries, call, ret >>

\* Ok(workouts), once the for loop has run out of entries
ReturnOk ==
    /\ pc = "seek"
    /\ k > Len(access_table_entries)
    /\ pc' = "done"
    /\ result' = Ok(workouts)
    /\ UNCHANGED << index, storage, atPos, stPos, access_table_entries, k, entry,
                    workouts, call, ret >>

Next == ScanStep \/ SeekStep \/ ReadStep \/ IntoStep \/ ReturnOk

Spec == Init /\ [][Next]_vars

\* the scan loop keeps running: an enabled iteration is taken
SpecFair == Init /\ [][Next]_vars /\ WF_vars(ScanStep)

(* ------------------------------------------------------------------ *)
(* The index and payload streams read byte by byte, for the properties  *)
(* ------------------------------------------------------------------ *)

InWorkouts == pc \in {"scan", "seek", "read", "into", "done"}

\* the magic byte of the i-th index record (i from 0), if the record is complete
RecordComplete(s, i) == (i + 1) * AccessTableEntrySize <= Len(s)
RecordMagic(s, i) == s[i * AccessTableEntrySize + 1]

\* the number of complete records with magic 0xF0 the stream starts with
RECURSIVE LeadingValid(_, _)
LeadingValid(s, i) ==
    IF RecordComplete(s, i) /\ RecordMagic(s, i) = 240
    THEN LeadingValid(s, i + 1)
    ELSE i

NumValid == LeadingValid(index, 0)

\* the valid records are followed by a complete terminator record
Terminated ==
    RecordComplete(index, NumValid) /\ RecordMagic(index, NumValid) \in {255, 112}

\* the valid records are followed by a complete record of unrecognised magic
BadMagicFirst ==
    RecordComplete(index, NumValid) /\ RecordMagic(index, NumValid) \notin {240, 255, 112}

\* record_offset of the i-th valid record (i from 1): the two bytes at its
\* place in the record, low byte first
RecordOffsetLE(i) ==
    LET b == (i - 1) * AccessTableEntrySize
               + AccessTableLayout[FieldIdx(AccessTableLayout, "record_offset")].off
    IN  index[b + 1] + 256 * index[b + 2]

\* how seek, decode and conversion of the i-th valid entry end
EntryOutcome(i) ==
    IF RecordOffsetLE(i) > Len(storage) THEN "err"
    ELSE LET r == LogDataStorageEntryRead(storage, RecordOffsetLE(i))
         IN  IF r.res # "ok" THEN r.res
             ELSE LogDataStorageEntryInto(r.variant, r.entry).res

(* ------------------------------------------------------------------ *)
(* Properties of Drive::workouts                                        *)
(* ------------------------------------------------------------------ *)

\* C1: when the index stream is N complete 0xF0 records followed by a
\* complete 0xFF or 0x70 record, the scan leaves exactly those N entries, in
\* stream order, in access_table_entries, the terminator is not among them,
\* and the index cursor stops right after the terminator.
C1_ScanYieldsValidEntries ==
    (InWorkouts /\ pc # "scan" /\ Terminated) =>
        /\ Len(access_table_entries) = NumValid
        /\ \A i \in 1 .. NumValid :
             /\ access_table_entries[i].magic = 240
             /\ access_table_entries[i] =
                  LogDataAccessTableEntryRead(index, (i - 1) * AccessTableEntrySize).entry
        /\ atPos = (NumValid + 1) * AccessTableEntrySize

C1_Witness ==
    /\ pc = "seek"
    /\ Terminated
    /\ NumValid = 3
    /\ Len(access_table_entries) = 3
    /\ RecordMagic(index, NumValid) = 112
    /\ Len(index) > atPos

\* C2: when the valid records are followed by a complete record whose magic
\* is none of 0xF0, 0xFF, 0x70, the reader returns ParserError for it,
\* Drive::workouts ends with that error, and the record is neither skipped
\* nor pushed: the scan never gets past it.
C2_BadMagicFails ==
    (InWorkouts /\ BadMagicFirst) =>
        /\ LogDataAccessTableEntryRead(index, NumValid * AccessTableEntrySize)
             = [res |-> "err", err |-> ParserErrorDefault]
        /\ pc \in {"scan", "done"}
        /\ Len(access_table_entries) <= NumValid
        /\ atPos <= NumValid * AccessTableEntrySize
        /\ pc = "done" => result = Err(ParserErrorDefault)

C2_Witness ==
    /\ pc = "done"
    /\ BadMagicFirst
    /\ NumValid = 2
    /\ Len(access_table_entries) = 2
    /\ Len(index) > (NumValid + 1) * AccessTableEntrySize
    /\ result = Err(ParserErrorDefault)

\* C3: when Drive::workouts returns Ok, the list has one Workout per valid
\* index entry, in index order, and the i-th is the conversion of the record
\* decoded at the absolute offset record_offset (little-endian) of the i-th
\* entry, wherever the cursor was left before.
C3_WorkoutPerEntryAtOffset ==
    (InWorkouts /\ result.kind = "Ok") =>
        /\ Terminated
        /\ Len(result.value) = NumValid
        /\ \A i \in 1 .. NumValid :
             LET r == LogDataStorageEntryRead(storage, RecordOffsetLE(i))
             IN  /\ r.res = "ok"
                 /\ result.value[i] = LogDataStorageEntryInto(r.variant, r.entry).workout

C3_Witness ==
    /\ result.kind = "Ok"
    /\ Len(result.value) = 3
    /\ RecordOffsetLE(1) > 0
    /\ RecordOffsetLE(2) = 0
    /\ RecordOffsetLE(3) > 0
    /\ result.value[1] # result.value[2]

\* C4: when seek or decode of an entry fails (all entries before it having
\* been decoded), Drive::workouts ends with an error and returns no list;
\* and a returned list never leaves an entry out.
C4_AllOrNothing ==
    (InWorkouts /\ pc = "done" /\ Terminated) =>
        /\ \A i \in 1 .. NumValid :
             (EntryOutcome(i) = "err" /\ \A j \in 1 .. (i - 1) : EntryOutcome(j) = "ok")
                => (result.kind = "Err" /\ "value" \notin DOMAIN result)
        /\ result.kind = "Ok" => \A i \in 1 .. NumValid : EntryOutcome(i) = "ok"

C4_Witness ==
    /\ pc = "done"
    /\ Terminated
    /\ NumValid = 3
    /\ Len(workouts) = 2
    /\ RecordOffsetLE(3) > Len(storage)
    /\ result.kind = "Err"

\* C5: Drive::workouts ends either with Ok(list) or with Err(ParserError),
\* whatever the two streams hold.
C5_OkOrErrOnly ==
    (InWorkouts /\ pc = "done") => result.kind \in {"Ok", "Err"}

(* ------------------------------------------------------------------ *)
(* The decoders called on their own                                     *)
(* ------------------------------------------------------------------ *)

\* the number of frames that follow the body in a generated record
MaxFrames == 5

YearBitsSamples == {0, 24, 100, 127}
HourSamples == {0, 14, 23, 24, 255}
MinuteSamples == {0, 30, 59, 60, 127}
MagicSamples == {0, 149, 255}
DistanceSamples ==
    { U32(0, 0), U32(0, 1), U32(0, 499), U32(0, 500), U32(0, 501), U32(0, 2000),
      U32(0, 2100), U32(0, 2500), U32(0, 65535), U32(1, 0), U32(1, 1),
      U32(32767, 65535), U32(32768, 0), U32(65535, 65534), U32(65535, 65535) }
SplitSamples == {0, 1, 2, 3, 499, 500, 501, 65535}

\* the number of frames of a workout whose heart rate is averaged
MaxHeartRates == 3

HeartRateSamples == {0, 1, 140, 141, 255}

\* a record of the given type, distance and split size followed by the
\* given number of frames
SampleRecord(ty, td, ss, present) ==
    EncSingleEntry([BaseRecord EXCEPT !.workout_type = ty, !.total_distance = td,
                       !.split_size = ss,
                       !.frames = [i \in 1 .. present |-> Frame(1200 + i, 150 + i, 20 + i)]])

\* durations in milliseconds given to pace and to watts
MillisSamples == {0, 100, 499, 120000, 1200000, 1200900, 6553500}

InitPace ==
    /\ \/ \E ms \in MillisSamples, d \in DistanceSamples :
            call = [fn |-> "Workout::pace", millis |-> ms, distance |-> d]
       \/ \E ms \in MillisSamples, d \in SplitSamples \cup {1000, 5000} :
            call = [fn |-> "WorkoutFrame::pace", millis |-> ms, distance |-> d]
    /\ storage = << >>
    /\ stPos = 0

\* durations and distances given to watts and cal_hr; the cubes of their
\* ratios in lowest terms stay below 2^31
WattsMillisSamples == {0, 100, 120000, 1200000, 1200900}
WattsDistanceSamples == {0, 500, 2000, 5000}

InitWatts ==
    /\ \E f \in {"Workout::watts", "Workout::cal_hr"}, ms \in WattsMillisSamples,
          d \in WattsDistanceSamples :
         call = [fn |-> f, millis |-> ms, distance |-> U32Of(d)]
    /\ storage = << >>
    /\ stPos = 0

\* bytes put in place of one byte of an index record
ByteSamples == {0, 1, 127, 128, 255}

\* an index record with header byte 0xF0 in which one byte after the header
\* is replaced
InitAccessTableEntryRead ==
    /\ \E i \in 2 .. AccessTableEntrySize, b \in ByteSamples :
         /\ call = [fn |-> "LogDataAccessTableEntry::read", at |-> i, byte |-> b]
         /\ storage = [EncAccessTableEntry(240, 0) EXCEPT ![i] = b]
    /\ stPos = 0

\* 2023-02-29 10:00, a day the month does not have
TsNoSuchDay == PackTimestamp(23, 29, 2, 10, 0, 0)

\* FreeRow and SingleDistance records of n splits of 500 m, to be decoded
\* and converted
InitSingleEntryInto ==
    /\ \E ty \in {1, 3}, ts \in {TsValid, TsNoSuchDay, U32(0, 0)},
          dur \in {0, 2405, 65535}, n \in 0 .. MaxFrames, spm \in {0, 24, 255},
          sn \in {U32(6553, 4242), U32(65535, 65535)} :
         LET r == [BaseRecord EXCEPT !.workout_type = ty, !.timestamp = ts,
                      !.total_duration = dur, !.total_distance = U32Of(500 * n),
                      !.spm = spm, !.serial_number = sn,
                      !.frames = [i \in 1 .. n |->
                                    Frame(1200 + i, IF i = 2 THEN 0 ELSE 150 + i, 20 + i)]]
         IN  /\ call = [fn |-> "SingleEntry::into", record |-> r]
             /\ storage = EncSingleEntry(r)
    /\ stPos = 2

\* the number of workouts on the drive that list-workouts is run on
MaxListed == 3

\* list-workouts on 0 .. MaxListed workouts, without -n and with -n 0 ..
\* MaxListed + 1; a workout stands for itself by its record id
InitListWorkouts ==
    /\ \E n \in 0 .. MaxListed, flag \in {None} \cup { Some(m) : m \in 0 .. MaxListed + 1 } :
         call = [fn |-> "cmd_list_workouts", workouts |-> [i \in 1 .. n |-> 100 + i],
                 flag_last |-> flag]
    /\ storage = << >>
    /\ stPos = 0

InitHeartRate ==
    /\ \E hrs \in SeqsUpTo(HeartRateSamples, MaxHeartRates) :
         call = [fn |-> "Workout::heart_rate", heart_rates |-> hrs]
    /\ storage = << >>
    /\ stPos = 0

InitUnit ==
    /\ pc = "unit"
    /\ atPos = 0
    /\ index = << >>
    /\ access_table_entries = << >>
    /\ k = 1
    /\ entry = NoEntry
    /\ workouts = << >>
    /\ result = NoResult
    /\ ret = NoRet
    /\ \/ /\ \E yy \in YearBitsSamples, day \in 0 .. 31, month \in 0 .. 15,
                hour \in HourSamples, spare \in {0, 1}, minute \in MinuteSamples :
               call = [fn |-> "decode_timestamp", yy |-> yy, day |-> day,
                       month |-> month, hour |-> hour, spare |-> spare,
                       minute |-> minute,
                       timestamp |-> PackTimestamp(yy, day, month, hour, spare, minute)]
          /\ storage = << >>
          /\ stPos = 0
       \/ /\ \E magic \in MagicSamples, tag \in Byte :
               /\ call = [fn |-> "LogDataStorageEntry::read", magic |-> magic, tag |-> tag]
               /\ storage = << magic, tag >> \o SubSeq(RecFreeRow, 3, Len(RecFreeRow))
          /\ stPos = 0
       \/ /\ \E ty \in {1, 3, 5, 10}, td \in DistanceSamples, ss \in SplitSamples,
                present \in 0 .. MaxFrames :
               /\ call = [fn |-> "SingleEntry::read", tag |-> ty,
                          total_distance |-> td, split_size |-> ss, present |-> present]
               /\ storage = SampleRecord(ty, td, ss, present)
          /\ stPos = 2
       \/ InitHeartRate
       \/ InitPace
       \/ InitWatts
       \/ InitAccessTableEntryRead
       \/ InitSingleEntryInto
       \/ InitListWorkouts

UnitFrame == << index, atPos, access_table_entries, k, entry, workouts, pc, result,
                storage, call >>

\* decode_timestamp(timestamp)
CallDecodeTimestamp ==
    /\ pc = "unit"
    /\ call.fn = "decode_timestamp"
    /\ ret = NoRet
    /\ ret' = decode_timestamp(call.timestamp)
    /\ UNCHANGED << UnitFrame, stPos >>

\* LogDataStorageEntry::read(f) with the cursor at the start of a record;
\* the cursor after a failed read_exact is not determined and is left as it was
CallStorageEntryRead ==
    /\ pc = "unit"
    /\ call.fn = "LogDataStorageEntry::read"
    /\ ret = NoRet
    /\ ret' = LogDataStorageEntryRead(storage, stPos)
    /\ stPos' = IF "pos" \in DOMAIN ret' THEN ret'.pos ELSE stPos
    /\ UNCHANGED UnitFrame

\* SingleEntry::read(f, magic, workout_type) with the cursor after the header
CallSingleEntryRead ==
    /\ pc = "unit"
    /\ call.fn = "SingleEntry::read"
    /\ ret = NoRet
    /\ ret' = SingleEntryRead(storage, stPos, ReadU8(storage, 0),
                              WorkoutTypeTryFrom(call.tag).val)
    /\ stPos' = IF "pos" \in DOMAIN ret' THEN ret'.pos ELSE stPos
    /\ UNCHANGED UnitFrame

\* Workout::heart_rate on a workout whose frames are converted from
\* SingleFrames with the given heart-rate bytes
CallHeartRate ==
    /\ pc = "unit"
    /\ call.fn = "Workout::heart_rate"
    /\ ret = NoRet
    /\ LET frames == [i \in 1 .. Len(call.heart_rates) |->
                        SingleFrameInto(Frame(1200 + i, call.heart_rates[i], 24))]
       IN  ret' = [res |-> "ok", frames |-> frames,
                   val |-> WorkoutHeartRate([frames |-> frames])]
    /\ UNCHANGED << UnitFrame, stPos >>

\* Workout::pace
CallWorkoutPace ==
    /\ pc = "unit"
    /\ call.fn = "Workout::pace"
    /\ ret = NoRet
    /\ ret' = WorkoutPace([total_work_duration |-> call.millis,
                           total_distance |-> call.distance])
    /\ UNCHANGED << UnitFrame, stPos >>

\* WorkoutFrame::pace
CallWorkoutFramePace ==
    /\ pc = "unit"
    /\ call.fn = "WorkoutFrame::pace"
    /\ ret = NoRet
    /\ ret' = WorkoutFramePace([work_duration |-> call.millis, distance |-> call.distance])
    /\ UNCHANGED << UnitFrame, stPos >>

\* Workout::watts
CallWorkoutWatts ==
    /\ pc = "unit"
    /\ call.fn = "Workout::watts"
    /\ ret = NoRet
    /\ ret' = [res |-> "ok",
               val |-> WorkoutWatts([total_work_duration |-> call.millis,
                                     total_distance |-> call.distance])]
    /\ UNCHANGED << UnitFrame, stPos >>

\* Workout::cal_hr
CallWorkoutCalHr ==
    /\ pc = "unit"
    /\ call.fn = "Workout::cal_hr"
    /\ ret = NoRet
    /\ ret' = [res |-> "ok",
               val |-> WorkoutCalHr([total_work_duration |-> call.millis,
                                     total_distance |-> call.distance])]
    /\ UNCHANGED << UnitFrame, stPos >>

\* LogDataAccessTableEntry::read(f) with the cursor at the start of a record
CallAccessTableEntryRead ==
    /\ pc = "unit"
    /\ call.fn = "LogDataAccessTableEntry::read"
    /\ ret = NoRet
    /\ ret' = LogDataAccessTableEntryRead(storage, stPos)
    /\ stPos' = IF ret'.res = "ok" THEN ret'.pos ELSE stPos
    /\ UNCHANGED UnitFrame

\* SingleEntry::read(f) of a record that decodes, then into() on the entry
CallSingleEntryInto ==
    /\ pc = "unit"
    /\ call.fn = "SingleEntry::into"
    /\ ret = NoRet
    /\ LET r == SingleEntryRead(storage, stPos, ReadU8(storage, 0),
                                WorkoutTypeTryFrom(ReadU8(storage, 1)).val)
       IN  /\ r.res = "ok"
           /\ ret' = SingleEntryInto(r.entry)
           /\ stPos' = r.pos
    /\ UNCHANGED UnitFrame

\* cmd_list_workouts(args), from the header on
CallListWorkouts ==
    /\ pc = "unit"
    /\ call.fn = "cmd_list_workouts"
    /\ ret = NoRet
    /\ ret' \in CmdListWorkouts(call.workouts, call.flag_last)
    /\ UNCHANGED << UnitFrame, stPos >>

NextUnit ==
    \/ CallDecodeTimestamp
    \/ CallStorageEntryRead
    \/ CallSingleEntryRead
    \/ CallHeartRate
    \/ CallWorkoutPace
    \/ CallWorkoutFramePace
    \/ CallWorkoutWatts
    \/ CallWorkoutCalHr
    \/ CallAccessTableEntryRead
    \/ CallSingleEntryInto
    \/ CallListWorkouts

SpecUnit == InitUnit /\ [][NextUnit]_vars

(* ------------------------------------------------------------------ *)
(* Properties of the decoders                                           *)
(* ------------------------------------------------------------------ *)

Returned(fn) == pc = "unit" /\ call.fn = fn /\ ret # NoRet

\* C6: decode_timestamp takes year-2000 from bits 31-25, the day from bits
\* 24-20, the month from bits 19-16, the hour from bits 15-8 and the minute
\* from bits 6-0, whatever bit 7 is; when these form a calendar date and a
\* time of day it returns exactly that date-time with seconds 0.
C6_TimestampLayout ==
    Returned("decode_timestamp") =>
        /\ TimestampFields(call.timestamp) =
             [year |-> 2000 + call.yy, day |-> call.day, month |-> call.month,
              hour |-> call.hour, minute |-> call.minute]
        /\ (ValidYmd(2000 + call.yy, call.month, call.day) /\ ValidHm(call.hour, call.minute))
             => ret = [res |-> "ok",
                       datetime |-> [year |-> 2000 + call.yy, month |-> call.month,
                                     day |-> call.day, hour |-> call.hour,
                                     minute |-> call.minute, second |-> 0]]

\* 2024-06-15 14:30 decoded from year-bits 24, month 6, day 15, hour 14,
\* minute 30 with bit 7 set
C6_Witness ==
    /\ Returned("decode_timestamp")
    /\ call.timestamp = U32(24 * 512 + 15 * 16 + 6, 14 * 256 + 128 + 30)
    /\ ret.res = "ok"
    /\ ret.datetime = [year |-> 2024, month |-> 6, day |-> 15, hour |-> 14,
                       minute |-> 30, second |-> 0]

\* C7: a timestamp whose month, day, hour or minute is no calendar value
\* makes the decode end with a decode failure (an error value).
C7_InvalidTimestampIsDecodeFailure ==
    (/\ Returned("decode_timestamp")
     /\ ~(ValidYmd(2000 + call.yy, call.month, call.day) /\ ValidHm(call.hour, call.minute)))
        => ret.res = "err"

\* C8: LogDataStorageEntry::read picks its arm from the second header byte
\* alone: 0x01, 0x03, 0x05, 0x0A Single, 0x06 and 0x07 FixedInterval, 0x08
\* VariableInterval; every other tag gives ParserError, no record, and the
\* cursor 2 bytes on.
C8_DispatchOnTypeTag ==
    Returned("LogDataStorageEntry::read") =>
        /\ call.tag \in {1, 3, 5, 10} => ret.variant = "Single"
        /\ call.tag \in {6, 7} => ret.variant = "FixedInterval"
        /\ call.tag = 8 => ret.variant = "VariableInterval"
        /\ call.tag \notin {1, 3, 5, 6, 7, 8, 10} =>
             /\ ret = [res |-> "err", err |-> ParserErrorDefault, variant |-> "None",
                       pos |-> 2]
             /\ stPos = 2

C8_Witness ==
    /\ Returned("LogDataStorageEntry::read")
    /\ call.tag = 10
    /\ call.magic = 255
    /\ ret.variant = "Single"

\* x * y for two 16-bit values, as 16-bit halves
Mul16(x, y) ==
    LET a  == (x \div 256) * y
        b  == (x % 256) * y
        lo == (a % 256) * 256 + b
    IN  U32(a \div 256 + lo \div 65536, lo % 65536)

\* a * d for a u32 a and a 16-bit d, as three 16-bit limbs, highest first
MulWide(a, d) ==
    LET p0  == Mul16(a.lo, d)
        p1  == Mul16(a.hi, d)
        mid == p0.hi + p1.lo
    IN  << p1.hi + mid \div 65536, mid % 65536, p0.lo >>

LimbsLess(x, y) ==
    \/ x[1] < y[1]
    \/ x[1] = y[1] /\ x[2] < y[2]
    \/ x[1] = y[1] /\ x[2] = y[2] /\ x[3] < y[3]

Wide(a) == << 0, a.hi, a.lo >>

\* n = ceil(td / ss): (n - 1) * ss < td <= n * ss, or both are 0
IsCeilDiv(n, td, ss) ==
    IF U32IsZero(td) THEN U32IsZero(n)
    ELSE /\ ~U32IsZero(n)
         /\ LimbsLess(MulWide(U32Dec(n), ss), Wide(td))
         /\ ~LimbsLess(MulWide(n, ss), Wide(td))

\* the frames of the stream that lie after the body
FramesAvailable == (Len(storage) - 2 - SingleEntryBodySize) \div SingleFrameSize

U32LeInt(a, n) == a.hi < n \div 65536 \/ (a.hi = n \div 65536 /\ a.lo <= n % 65536)

\* C9: for FreeRow and SingleDistance with split_size >= 1 the frame count is
\* ceil(total_distance / split_size), the sum that forms it fits 32 bits, and
\* a decode that succeeds holds exactly that many frames.
C9_FrameCountIsCeil ==
    (Returned("SingleEntry::read") /\ call.tag \in {1, 3} /\ call.split_size >= 1) =>
        LET n  == DistanceNumFrames(call.total_distance, call.split_size)
            dm == U32DivMod(call.total_distance, call.split_size)
        IN  /\ IsCeilDiv(n, call.total_distance, call.split_size)
            /\ ~U32AddOverflows(dm.quot, IF dm.rem > 0 THEN 1 ELSE 0)
            /\ ret.res \in {"ok", "err"}
            /\ ret.res = "ok" <=> U32LeInt(n, FramesAvailable)
            /\ ret.res = "ok" => U32Of(Len(ret.entry.frames)) = n

\* 2100 m in splits of 500 m: 5 frames
C9_Witness ==
    /\ Returned("SingleEntry::read")
    /\ call.tag = 1
    /\ call.total_distance = U32Of(2100)
    /\ call.split_size = 500
    /\ ret.res = "ok"
    /\ Len(ret.entry.frames) = 5

\* C10: a record tagged 0x06, 0x07 or 0x08 ends the decode with the explicit
\* "not yet implemented" failure, which differs from the ParserError that an
\* unrecognised tag gives.
C10_IntervalNotYetImplemented ==
    Returned("LogDataStorageEntry::read") =>
        /\ call.tag \in {6, 7, 8} =>
             /\ ret.res = "panic"
             /\ ret.msg = "not yet implemented"
        /\ call.tag \notin {1, 3, 5, 6, 7, 8, 10} =>
             /\ ret.res = "err"
             /\ ret.err = ParserErrorDefault

C10_Witness ==
    /\ Returned("LogDataStorageEntry::read")
    /\ call.tag = 7
    /\ ret.res = "panic"
    /\ ret.msg = "not yet implemented"

\* C11 (as stated): every successful LogDataAccessTableEntry::read moves the
\* index cursor 36 bytes on, so the k-th record (k from 0) is decoded from
\* bytes 36*k .. 36*k+35.
C11_RecordIs36Bytes ==
    InWorkouts =>
        /\ pc = "scan" => atPos = 36 * Len(access_table_entries)
        /\ pc \in {"seek", "read", "into"} => atPos = 36 * (Len(access_table_entries) + 1)
        /\ \A i \in 1 .. Len(access_table_entries) :
             access_table_entries[i] =
               LogDataAccessTableEntryRead(SubSeq(index, 36 * (i - 1) + 1, 36 * i), 0).entry

\* C11 (amended): every successful LogDataAccessTableEntry::read moves the
\* index cursor 32 bytes on, so the k-th record (k from 0) is decoded from
\* bytes 32*k .. 32*k+31 and from no other byte.
C11_RecordIs32Bytes ==
    InWorkouts =>
        /\ pc = "scan" => atPos = 32 * Len(access_table_entries)
        /\ pc \in {"seek", "read", "into"} => atPos = 32 * (Len(access_table_entries) + 1)
        /\ \A i \in 1 .. Len(access_table_entries) :
             access_table_entries[i] =
               LogDataAccessTableEntryRead(SubSeq(index, 32 * (i - 1) + 1, 32 * i), 0).entry

C11_Witness ==
    /\ pc = "seek"
    /\ Len(access_table_entries) = 3
    /\ atPos = 128
    /\ access_table_entries[3] = LogDataAccessTableEntryRead(SubSeq(index, 65, 96), 0).entry

\* C12: a successful decode of a Single record whose frame count is n holds
\* n frames and leaves the cursor 2 + 48 + 32 * n bytes after the start of
\* the record; the same record decodes to the same result when the stream
\* ends right after the n-th frame and when other bytes follow it; a stream
\* that ends right after the n-th frame decodes.
C12_CursorAfterFrames ==
    /\ (Returned("SingleEntry::read") /\ call.tag \in {1, 3} /\ call.split_size >= 1
          /\ IsCeilDiv(U32Of(call.present), call.total_distance, call.split_size)) =>
         (ret.res = "ok" /\ stPos = Len(storage))
    /\ (Returned("SingleEntry::read") /\ ret.res = "ok") =>
        LET n      == Len(ret.entry.frames)
            magic  == ReadU8(storage, 0)
            ty     == WorkoutTypeTryFrom(call.tag).val
            record == SubSeq(storage, 1, 50 + 32 * n)
        IN  /\ IsCeilDiv(U32Of(n), call.total_distance, call.split_size)
            /\ stPos = 50 + 32 * n
            /\ ret.pos = stPos
            /\ stPos <= Len(storage)
            /\ SingleEntryRead(record, 2, magic, ty) = ret
            /\ SingleEntryRead(record \o << 1, 3, 0, 0, 0, 0 >>, 2, magic, ty) = ret
            /\ \A i \in 1 .. n :
                 ret.entry.frames[i] =
                   SingleFrameRead(SubSeq(storage, 19 + 32 * i, 50 + 32 * i), 0).frame

\* 4 frames decoded from a stream that ends with the fourth
C12_Witness ==
    /\ Returned("SingleEntry::read")
    /\ ret.res = "ok"
    /\ Len(ret.entry.frames) = 4
    /\ call.present = 4
    /\ stPos = 178
    /\ Len(storage) = 178

RECURSIVE SumSeq(_)
SumSeq(q) == IF q = << >> THEN 0 ELSE Head(q) + SumSeq(Tail(q))

\* C13: a heart-rate byte 0 becomes an absent work_heart_rate and 1..255 a
\* present one; Workout::heart_rate is absent when there is no frame or a
\* frame without heart rate, and otherwise the floor of the mean.
C13_HeartRateMean ==
    Returned("Workout::heart_rate") =>
        LET hrs == call.heart_rates
            n   == Len(hrs)
        IN  /\ Len(ret.frames) = n
            /\ \A i \in 1 .. n :
                 /\ hrs[i] = 0 => ret.frames[i].work_heart_rate = [some |-> FALSE]
                 /\ hrs[i] \in 1 .. 255 =>
                      ret.frames[i].work_heart_rate = [some |-> TRUE, val |-> hrs[i]]
            /\ ~ret.val.some <=> (n = 0 \/ \E i \in 1 .. n : hrs[i] = 0)
            /\ ret.val.some =>
                 /\ ret.val.val * n <= SumSeq(hrs)
                 /\ SumSeq(hrs) < (ret.val.val + 1) * n

\* 140, 141, 141 average to 140 (floor of 140.67)
C13_Witness ==
    /\ Returned("Workout::heart_rate")
    /\ call.heart_rates = << 140, 141, 141 >>
    /\ ret.val = [some |-> TRUE, val |-> 140]

\* one frame without heart rate makes the mean absent
C13_WitnessAbsent ==
    /\ Returned("Workout::heart_rate")
    /\ call.heart_rates = << 140, 0, 255 >>
    /\ ~ret.val.some

\* q = floor(d / 500) for a u32 d: q * 500 <= d < (q + 1) * 500
IsDiv500(q, d) ==
    /\ ~LimbsLess(Wide(d), MulWide(q, 500))
    /\ LimbsLess(Wide(d), MulWide(U32AddSmall(q, 1), 500))

\* p = floor(millis / max(q, 1)) for the u32 q (below 2^24)
IsPace(p, millis, q) ==
    LET divisor == IF U32IsZero(q) THEN 1 ELSE q.hi * 65536 + q.lo
    IN  p * divisor <= millis /\ millis < (p + 1) * divisor

\* C14: Workout::pace and WorkoutFrame::pace return the work duration in
\* milliseconds integer-divided by max(distance div 500, 1); a distance
\* below 500, 0 included, gives the divisor 1, and no call divides by zero.
C14_PaceDivisorAtLeastOne ==
    /\ Returned("Workout::pace") =>
         /\ ret.res = "ok"
         /\ \E q \in { U32DivMod(call.distance, 500).quot } :
              IsDiv500(q, call.distance) /\ IsPace(ret.val, call.millis, q)
         /\ (call.distance.hi = 0 /\ call.distance.lo < 500) => ret.val = call.millis
    /\ Returned("WorkoutFrame::pace") =>
         /\ ret.res = "ok"
         /\ IsPace(ret.val, call.millis, U32Of(call.distance \div 500))
         /\ call.distance < 500 => ret.val = call.millis

\* 20 minutes over distance 0 and over 499 m: the divisor is 1
C14_Witness ==
    /\ Returned("Workout::pace")
    /\ call.distance = U32(0, 0)
    /\ call.millis = 1200000
    /\ ret = [res |-> "ok", val |-> 1200000]

\* 20 minutes over 5000 m in a frame: 2:00.0 per 500 m
C14_WitnessFrame ==
    /\ Returned("WorkoutFrame::pace")
    /\ call.distance = 5000
    /\ call.millis = 1200000
    /\ ret = [res |-> "ok", val |-> 120000]

\* |x - tenths / 10| <= 0.05 for a finite x
NearTenths(x, tenths) ==
    /\ x.kind = "finite"
    /\ 20 * x.num - 2 * tenths * x.den <= x.den
    /\ 2 * tenths * x.den - 20 * x.num <= x.den

\* the whole seconds and the meters of the call, both positive
WattsFinite == AsSecs(call.millis) > 0 /\ call.distance.lo > 0

\* watts * (seconds / meters)^3 = 2.8
IsWatts(x) ==
    /\ x.kind = "finite"
    /\ F64Mul(x, Powi3(Rat(AsSecs(call.millis), call.distance.lo))) = Rat(28, 10)

\* cal_hr = watts * 3.44 + 300 for some watts with watts * pace^3 = 2.8
IsCalHr(x) ==
    /\ x.kind = "finite"
    /\ 100 * x.num >= 30000 * x.den
    /\ IsWatts(Rat(100 * x.num - 30000 * x.den, 344 * x.den))

WattsGeneral ==
    /\ (Returned("Workout::watts") /\ WattsFinite) => IsWatts(ret.val)
    /\ (Returned("Workout::cal_hr") /\ WattsFinite) => IsCalHr(ret.val)

WattsExample(w, c) ==
    /\ (Returned("Workout::watts") /\ AsSecs(call.millis) = 1200 /\ call.distance.lo = 5000)
          => NearTenths(ret.val, w)
    /\ (Returned("Workout::cal_hr") /\ AsSecs(call.millis) = 1200 /\ call.distance.lo = 5000)
          => NearTenths(ret.val, c)

\* C15 (as stated): watts = 2.8 / (seconds / meters)^3 and cal_hr = watts *
\* 3.44 + 300; for 1200 s and 5000 m watts is 202.3 and cal_hr is 996.0, to
\* the one decimal given.
C15_WattsExampleAsStated == WattsGeneral /\ WattsExample(2023, 9960)

\* C15 (amended): the same formulas; for 1200 s and 5000 m watts is 202.5 and
\* cal_hr is 996.8, to one decimal.
C15_WattsExample == WattsGeneral /\ WattsExample(2025, 9968)

\* cal_hr of 1200 s over 5000 m is 2691250 / 2700 = 996.759...
C15_Witness ==
    /\ Returned("Workout::cal_hr")
    /\ call.millis = 1200000
    /\ call.distance = U32(0, 5000)
    /\ ret.val = Rat(2691250, 2700)

\* the bytes of an index entry, field by field in the order of the struct
EncodeAccessTableEntry(e) ==
    << e.magic, e.workout_type >> \o EncU16LE(e.interval_rest_time) \o e.workout_name
      \o e.unknown_1 \o EncU16BE(e.timestamp) \o e.unknown_2 \o EncU16LE(e.num_splits)
      \o EncU16LE(e.duration_or_distance) \o EncU16LE(e.record_offset) \o e.unknown_3
      \o EncU16LE(e.record_size) \o EncU16LE(e.index) \o e.unknown_4

\* C16: an index record with header byte 0xF0 decodes, and encoding the
\* decoded fields again gives the bytes that were read, the reserved fields
\* included; a record that differs from another in a byte decodes to
\* different fields.
C16_IndexEntryRoundTrip ==
    Returned("LogDataAccessTableEntry::read") =>
        LET base == EncAccessTableEntry(240, 0)
        IN  /\ ret.res = "ok"
            /\ EncodeAccessTableEntry(ret.entry) = SubSeq(storage, 1, stPos)
            /\ stPos = Len(storage)
            /\ storage # base => ret.entry # LogDataAccessTableEntryRead(base, 0).entry

\* the last byte of the reserved field unknown_4 replaced by 0
C16_Witness ==
    /\ Returned("LogDataAccessTableEntry::read")
    /\ call.at = 32
    /\ call.byte = 0
    /\ ret.res = "ok"
    /\ ret.entry.unknown_4 = << 173, 174, 175, 0 >>

\* the fields of the Workout w made from the record r
ConvertedFields(w, r) ==
    /\ w.total_rest_duration = [some |-> FALSE]
    /\ w.spm = [some |-> TRUE, val |-> r.spm]
    /\ w.total_work_duration = r.total_duration * 100
    /\ w.total_distance = r.total_distance
    /\ w.serial_number = r.serial_number
    /\ Len(w.frames) = Len(r.frames)
    /\ \A i \in 1 .. Len(r.frames) :
         /\ w.frames[i].distance = r.split_size
         /\ w.frames[i].work_duration = r.frames[i].duration_or_distance * 100
         /\ w.frames[i].rest_duration = [some |-> FALSE]
         /\ w.frames[i].rest_heart_rate = [some |-> FALSE]

\* C17: converting a decoded FreeRow or SingleDistance record gives a Workout
\* with total_rest_duration absent, spm the stroke rate, total_work_duration
\* the 16-bit total_duration times 100 ms, total_distance and serial number
\* copied, and the frames in order, each with distance = split_size,
\* work_duration = its 16-bit value times 100 ms and no rest fields.
C17_ConversionFields ==
    Returned("SingleEntry::into") =>
        /\ ret.res = "ok"
        /\ ConvertedFields(ret.workout, call.record)

\* the fields of every Workout the conversion does return
C17_FieldsWhenReturned ==
    (Returned("SingleEntry::into") /\ ret.res = "ok") =>
        ConvertedFields(ret.workout, call.record)

C17_ReturnedWitness ==
    /\ Returned("SingleEntry::into")
    /\ ret.res = "ok"
    /\ Len(ret.workout.frames) = 3
    /\ ret.workout.total_work_duration = 6553500

Min(a, b) == IF a <= b THEN a ELSE b

\* the rows are the last n workouts in order, numbered by their place in ws
IsLastRows(rows, ws, n) ==
    /\ Len(rows) = n
    /\ \A i \in 1 .. n :
         rows[i] = [number |-> Len(ws) - n + i, workout |-> ws[Len(ws) - n + i]]

\* C18: list-workouts -n num prints the last num workouts in their order,
\* each numbered with its 1-based position in the full list, and completes
\* for every num; a num above the number of workouts shows them all.
C18_LastNumShown ==
    (Returned("cmd_list_workouts") /\ call.flag_last.some) =>
        /\ ret.res = "ok"
        /\ IsLastRows(ret.rows, call.workouts, Min(call.flag_last.val, Len(call.workouts)))

\* the rows of every run with num at most the number of workouts
C18_RowsWithinCount ==
    (Returned("cmd_list_workouts") /\ call.flag_last.some
       /\ call.flag_last.val <= Len(call.workouts)) =>
        /\ ret.res = "ok"
        /\ IsLastRows(ret.rows, call.workouts, call.flag_last.val)

C18_RowsWitness ==
    /\ Returned("cmd_list_workouts")
    /\ call.flag_last = [some |-> TRUE, val |-> 2]
    /\ ret = [res |-> "ok", rows |-> << [number |-> 2, workout |-> 102],
                                        [number |-> 3, workout |-> 103] >>]

\* how the scan has ended, by what follows the valid records of the stream
ScanEnd ==
    IF Terminated
    THEN atPos = (NumValid + 1) * AccessTableEntrySize
    ELSE /\ pc = "done"
         /\ atPos = NumValid * AccessTableEntrySize
         /\ stPos = 0
         /\ workouts = << >>
         /\ result = IF BadMagicFirst THEN Err(ParserErrorDefault)
                                      ELSE Err(ParserErrorFromIo)

\* nothing of the payload loop has happened
PayloadUntouched == stPos = 0 /\ k = 1 /\ entry = NoEntry /\ workouts = << >>

\* C19: the scan ends on every index stream, at the first terminator, at the
\* first record of unrecognised magic (ParserError) or with the read failure
\* of the exhausted stream; without a complete terminator the result is never
\* Ok; and the payload stream is not touched while the scan runs.
C19_ScanTerminates ==
    /\ <>(pc # "scan")
    /\ [](pc # "scan" => ScanEnd)
    /\ [](result.kind = "Ok" => Terminated)
    /\ [](pc = "scan" => PayloadUntouched)

\* two valid records and a terminator cut short: the read failure is returned
C19_Witness ==
    /\ pc = "done"
    /\ NumValid = 2
    /\ Len(index) = 2 * AccessTableEntrySize + 20
    /\ index[2 * AccessTableEntrySize + 1] = 255
    /\ result = Err(ParserErrorFromIo)
    /\ PayloadUntouched

\* C20: SingleEntry::read of a FreeRow or SingleDistance record with
\* split_size 0 returns an entry or a decode failure, whatever total_distance
\* is; the frame count is computed without a division by zero.
C20_SplitZeroReturns ==
    (Returned("SingleEntry::read") /\ call.tag \in {1, 3} /\ call.split_size = 0) =>
        /\ ret.res \in {"ok", "err"}
        /\ NumFrames(WorkoutTypeTryFrom(call.tag).val, call.total_distance, 0).res = "ok"

\* what the decode of such a record does: it panics at the division
C20_SplitZeroPanics ==
    (Returned("SingleEntry::read") /\ call.tag \in {1, 3} /\ call.split_size = 0) =>
        ret = [res |-> "panic", msg |-> "attempt to divide by zero"]

C20_PanicWitness ==
    /\ Returned("SingleEntry::read")
    /\ call.tag = 3
    /\ call.split_size = 0
    /\ call.total_distance = U32(0, 0)
    /\ ret.res = "panic"

====
